---- MODULE Spec2Model ----
(***************************************************************************)
(* Holdings aggregation of src/lib/snaptrade.ts: getAllHoldings fetches    *)
(* the positions of every account concurrently, joins the fetches and      *)
(* hands the flattened list to aggregateHoldings, which folds it into one  *)
(* holding per equity ticker.                                              *)
(*                                                                         *)
(* Numbers.  units, shares, marketValue and currentValue are modelled as   *)
(* integers (the sums of the code are exact on them).  averagePrice is a   *)
(* JavaScript value: undefined, NaN, +Infinity, -Infinity or a finite      *)
(* number, held as an exact rational n/d in lowest terms.  Rounding of     *)
(* IEEE doubles is not modelled, and -0 is identified with 0 (the code     *)
(* never distinguishes them).                                              *)
(***************************************************************************)
EXTENDS Integers, Sequences, FiniteSets, TLC

VARIABLES
    pc,            \* position of the getAllHoldings / aggregateHoldings call
    accounts,      \* const accounts (snaptrade.ts:392), with their holdings
    fetch,         \* per account: state of the holdingsPromises entry
    positions,     \* parameter of aggregateHoldings (flatPositions)
    i,             \* number of positions the for-loop has consumed
    holdingsMap,   \* Map in insertion order: sequence of holdings
    existing,      \* holdingsMap.get(pos.symbol) as read by the last iteration
    holdings,      \* value returned by aggregateHoldings
    groq,          \* the analyzeWithGroq call (grok.ts): loop position,
                   \* requests sent, responses received, result
    apiCall,       \* a call of snapTradeRequest, getAccounts or
                   \* validateConnection: its inputs and its outcome
    compression    \* a call of compressWithBear1 (compression.ts): its
                   \* inputs and its result

vars == <<pc, accounts, fetch, positions, i, holdingsMap, existing, holdings, groq, apiCall, compression>>

-----------------------------------------------------------------------------
(* Bounds *)

MaxBatch == 3        \* longest batch handed directly to aggregateHoldings
MaxAccounts == 2     \* most accounts getAccounts reports
MaxPerAccount == 1   \* most positions one account's fetch returns
MaxParts == 4        \* most parts a generated symbol is made of
MaxCallBatch == 2    \* longest batch of one of several successive calls

-----------------------------------------------------------------------------
(* JavaScript numbers *)

Abs(x) == IF x < 0 THEN -x ELSE x

RECURSIVE GCD(_, _)
GCD(a, b) == IF b = 0 THEN a ELSE GCD(b, a % b)

Undefined == [k |-> "undefined", n |-> 0, d |-> 1]
NaN == [k |-> "NaN", n |-> 0, d |-> 1]
Infinity(s) == [k |-> "Infinity", n |-> s, d |-> 1]

\* the finite number n/d, d # 0, in lowest terms with a positive denominator
Rat(n, d) ==
    LET g == GCD(Abs(n), Abs(d))
        s == IF d < 0 THEN -1 ELSE 1
    IN  [k |-> "num", n |-> (s * n) \div g, d |-> (s * d) \div g]

Num(x) == [k |-> "num", n |-> x, d |-> 1]

Sign(v) == IF v.n < 0 THEN -1 ELSE IF v.n > 0 THEN 1 ELSE 0

IsNaNish(v) == v.k \in {"undefined", "NaN"}

\* ToBoolean: undefined, NaN and 0 are falsy, every other number is truthy
Truthy(v) == \/ v.k = "Infinity"
             \/ v.k = "num" /\ v.n # 0

\* a * b
JSMul(a, b) ==
    IF IsNaNish(a) \/ IsNaNish(b) THEN NaN
    ELSE IF a.k = "num" /\ b.k = "num" THEN Rat(a.n * b.n, a.d * b.d)
    ELSE IF Sign(a) = 0 \/ Sign(b) = 0 THEN NaN
    ELSE Infinity(Sign(a) * Sign(b))

\* a + b
JSAdd(a, b) ==
    IF IsNaNish(a) \/ IsNaNish(b) THEN NaN
    ELSE IF a.k = "num" /\ b.k = "num" THEN Rat(a.n * b.d + b.n * a.d, a.d * b.d)
    ELSE IF a.k = "num" THEN b
    ELSE IF b.k = "num" THEN a
    ELSE IF Sign(a) = Sign(b) THEN a
    ELSE NaN

\* a / b; a zero divisor is +0 (a sum of two numbers is never -0 unless both are)
JSDiv(a, b) ==
    IF IsNaNish(a) \/ IsNaNish(b) THEN NaN
    ELSE IF a.k = "num" /\ b.k = "num"
         THEN IF b.n # 0 THEN Rat(a.n * b.d, a.d * b.n)
              ELSE IF a.n = 0 THEN NaN
              ELSE Infinity(Sign(a))
    ELSE IF a.k = "num" THEN Num(0)
    ELSE IF b.k = "Infinity" THEN NaN
    ELSE IF b.n = 0 THEN Infinity(Sign(a))
    ELSE Infinity(Sign(a) * Sign(b))

-----------------------------------------------------------------------------
(* compressWithBear1 (compression.ts) *)

MaxTextLen == 8
MaxReplyLen == 8

\* a member of the parsed response or a text: undefined, a string, a number
Absent == [t |-> "undefined", s |-> <<>>, v |-> 0]
Str(s) == [t |-> "string", s |-> s, v |-> 0]
NumVal(v) == [t |-> "number", s |-> <<>>, v |-> v]

\* ToBoolean of such a value: undefined, "" and 0 are falsy
TruthyVal(x) ==
    \/ x.t = "string" /\ x.s # <<>>
    \/ x.t = "number" /\ x.v # 0

\* the string of n characters c
Rep(c, n) == [j \in 1..n |-> c]

\* Math.ceil(text.length / 4); a value without a length gives NaN
estimateTokens(x) ==
    IF x.t = "string" THEN Num((Len(x.s) + 3) \div 4) ELSE NaN

\* Math.max(0, x)
MathMax0(x) ==
    IF IsNaNish(x) THEN NaN
    ELSE IF x.k = "Infinity" THEN (IF x.n > 0 THEN x ELSE Num(0))
    ELSE IF x.n < 0 THEN Num(0)
    ELSE x

\* ((originalTokens - compressedTokens) / originalTokens) * 100
Savings(originalTokens, compressedTokens) ==
    JSMul(JSDiv(JSAdd(originalTokens, JSMul(Num(-1), compressedTokens)),
                originalTokens),
          Num(100))

Texts == { Str(Rep("a", n)) : n \in 0..MaxTextLen }

\* the parsed body of an OK response: not JSON, the JSON value null, or an
\* object whose compressed member is absent, a number or a string and whose
\* text member is absent or a string
NoBody == [kind |-> "none", compressed |-> Absent, text |-> Absent]
CompressionBodies ==
    { [kind |-> "unreadable", compressed |-> Absent, text |-> Absent],
      [kind |-> "null", compressed |-> Absent, text |-> Absent] }
    \cup [kind : {"object"},
          compressed : {Absent, NumVal(7)} \cup { Str(Rep("b", n)) : n \in 0..MaxReplyLen },
          text : {Absent, Str(Rep("c", 4))}]

\* status 0 stands for a fetch that rejects
CompressionResponses ==
    [status : {0, 401, 429, 500}, body : {NoBody}]
        \cup [status : {200}, body : CompressionBodies]

\* the result that carries the original text
Uncompressed(text) ==
    [compressed |-> text, originalTokens |-> estimateTokens(text),
     compressedTokens |-> estimateTokens(text), savings |-> Num(0)]

\* data.compressed || data.text || text
Choose3(a, b, c) == IF TruthyVal(a) THEN a ELSE IF TruthyVal(b) THEN b ELSE c

\* the try block: threw tells that fetch, response.json() or the read of a
\* member of null threw
CompressTry(text, resp) ==
    IF resp.status = 0 THEN [threw |-> TRUE, value |-> Uncompressed(text)]
    ELSE IF ~(resp.status >= 200 /\ resp.status <= 299)
         THEN [threw |-> FALSE, value |-> Uncompressed(text)]
    ELSE IF resp.body.kind \in {"unreadable", "null"}
         THEN [threw |-> TRUE, value |-> Uncompressed(text)]
    ELSE LET compressed == Choose3(resp.body.compressed, resp.body.text, text)
             originalTokens == estimateTokens(text)
             compressedTokens == estimateTokens(compressed)
         IN  [threw |-> FALSE,
              value |-> [compressed |-> compressed,
                         originalTokens |-> originalTokens,
                         compressedTokens |-> compressedTokens,
                         savings |-> MathMax0(Savings(originalTokens, compressedTokens))]]

\* the catch block returns the original text
compressWithBear1(text, resp) ==
    IF CompressTry(text, resp).threw THEN Uncompressed(text)
    ELSE CompressTry(text, resp).value

NoCompression == [pc |-> "idle", text |-> Str(<<>>),
                  resp |-> [status |-> 0, body |-> NoBody],
                  result |-> Uncompressed(Str(<<>>))]

-----------------------------------------------------------------------------
(* Symbols: strings as sequences of characters *)

Digits == {"0", "1", "2", "3", "4", "5", "6", "7", "8", "9"}

MSFT == <<"M", "S", "F", "T">>
AAPL == <<"A", "A", "P", "L">>
\* an option contract: AAPL210917C00150000
OPTION == <<"A", "A", "P", "L", "2", "1", "0", "9", "1", "7", "C",
            "0", "0", "1", "5", "0", "0", "0", "0">>

Includes(s, c) == \E j \in 1..Len(s) : s[j] = c

\* /\d{6}[CP]\d+/.test(symbol)
OptionFormat(s) ==
    \E j \in 1..Len(s) :
        /\ j + 7 <= Len(s)
        /\ \A m \in 0..5 : s[j + m] \in Digits
        /\ s[j + 6] \in {"C", "P"}
        /\ s[j + 7] \in Digits

\* symbols of 5 characters are taken for long ones (>= where the code has >)
isEquitySymbol_AtLeast5(symbol) ==
    IF OptionFormat(symbol) THEN FALSE
    ELSE IF Includes(symbol, " ") THEN FALSE
    ELSE IF Len(symbol) >= 5 /\ ~Includes(symbol, ".") THEN FALSE
    ELSE TRUE

\* the length rule without its exemption for symbols with a period
isEquitySymbol_LongRejected(symbol) ==
    IF OptionFormat(symbol) THEN FALSE
    ELSE IF Includes(symbol, " ") THEN FALSE
    ELSE IF Len(symbol) > 5 THEN FALSE
    ELSE TRUE

isEquitySymbol(symbol) ==
    IF OptionFormat(symbol) THEN FALSE
    ELSE IF Includes(symbol, " ") THEN FALSE
    ELSE IF Len(symbol) > 5 /\ ~Includes(symbol, ".") THEN FALSE
    ELSE TRUE

-----------------------------------------------------------------------------
(* Positions and holdings *)

Position(symbol, units, price, currency, avg) ==
    [symbol |-> symbol, units |-> units, marketValue |-> units * price,
     currency |-> currency, averagePurchasePrice |-> avg]

NoHolding == [ticker |-> <<>>, shares |-> 0, currentValue |-> 0,
              averagePrice |-> Undefined, currency |-> "none"]

\* holdingsMap.has(ticker)
MapHas(map, ticker) == \E j \in 1..Len(map) : map[j].ticker = ticker

MapIndex(map, ticker) == CHOOSE j \in 1..Len(map) : map[j].ticker = ticker

\* holdingsMap.get(ticker)
MapGet(map, ticker) ==
    IF MapHas(map, ticker) THEN map[MapIndex(map, ticker)] ELSE NoHolding

\* a plain mean of the two prices where the code weights them by shares
WeightedAvgPrice_Unweighted(ex, pos) ==
    IF Truthy(ex.averagePrice) /\ Truthy(pos.averagePurchasePrice)
    THEN JSDiv(JSAdd(ex.averagePrice, pos.averagePurchasePrice), Num(2))
    ELSE IF Truthy(ex.averagePrice) THEN ex.averagePrice
    ELSE pos.averagePurchasePrice

\* const weightedAvgPrice = ...
WeightedAvgPrice(ex, pos) ==
    LET totalUnits == ex.shares + pos.units
    IN  IF Truthy(ex.averagePrice) /\ Truthy(pos.averagePurchasePrice)
        THEN JSDiv(JSAdd(JSMul(Num(ex.shares), ex.averagePrice),
                         JSMul(Num(pos.units), pos.averagePurchasePrice)),
                   Num(totalUnits))
        ELSE IF Truthy(ex.averagePrice) THEN ex.averagePrice
        ELSE pos.averagePurchasePrice

\* the incoming units and value replace the totals where the code adds them
Combine_Overwrite(ex, pos) ==
    [ex EXCEPT !.shares = pos.units,
               !.currentValue = pos.marketValue,
               !.averagePrice = WeightedAvgPrice(ex, pos)]

\* the current value is left as it was where the code adds the market value
Combine_KeepValue(ex, pos) ==
    [ex EXCEPT !.shares = ex.shares + pos.units,
               !.averagePrice = WeightedAvgPrice(ex, pos)]

\* the currency follows the incoming position where the code leaves it alone
Combine_LastCurrency(ex, pos) ==
    [ex EXCEPT !.shares = ex.shares + pos.units,
               !.currentValue = (IF ex.currentValue # 0 THEN ex.currentValue ELSE 0)
                                + pos.marketValue,
               !.averagePrice = WeightedAvgPrice(ex, pos),
               !.currency = pos.currency]

\* the if-branch: the holding after the position is combined into it
Combine(ex, pos) ==
    [ex EXCEPT !.shares = ex.shares + pos.units,
               !.currentValue = (IF ex.currentValue # 0 THEN ex.currentValue ELSE 0)
                                + pos.marketValue,
               !.averagePrice = WeightedAvgPrice(ex, pos)]

\* a holding seeded with no shares where the code seeds it with pos.units
NewHolding_NoUnits(pos) ==
    [ticker |-> pos.symbol, shares |-> 0, currentValue |-> pos.marketValue,
     averagePrice |-> pos.averagePurchasePrice, currency |-> pos.currency]

\* the else-branch: the holding set for a ticker that is not in the map
NewHolding(pos) ==
    [ticker |-> pos.symbol, shares |-> pos.units, currentValue |-> pos.marketValue,
     averagePrice |-> pos.averagePurchasePrice, currency |-> pos.currency]

\* the loop without its `continue`: every position is aggregated
LoopBody_NoFilter(map, pos) ==
    IF MapHas(map, pos.symbol)
    THEN [map EXCEPT ![MapIndex(map, pos.symbol)] = Combine(@, pos)]
    ELSE Append(map, NewHolding(pos))

\* the loop without the lookup: every equity position sets a new entry
LoopBody_AlwaysInsert(map, pos) ==
    IF ~isEquitySymbol(pos.symbol) THEN map
    ELSE Append(map, NewHolding(pos))

\* a new entry is put in front of the map where Map.set puts it last
LoopBody_Prepend(map, pos) ==
    IF ~isEquitySymbol(pos.symbol) THEN map
    ELSE IF MapHas(map, pos.symbol)
         THEN [map EXCEPT ![MapIndex(map, pos.symbol)] = Combine(@, pos)]
         ELSE <<NewHolding(pos)>> \o map

\* one iteration of the for-loop over positions
LoopBody(map, pos) ==
    IF ~isEquitySymbol(pos.symbol) THEN map
    ELSE IF MapHas(map, pos.symbol)
         THEN [map EXCEPT ![MapIndex(map, pos.symbol)] = Combine(@, pos)]
         ELSE Append(map, NewHolding(pos))

RECURSIVE Fold(_, _, _)
Fold(map, ps, j) ==
    IF j > Len(ps) THEN map ELSE Fold(LoopBody(map, ps[j]), ps, j + 1)

\* aggregateHoldings as a function of its argument
aggregateHoldings(ps) == Fold(<<>>, ps, 1)

-----------------------------------------------------------------------------
(* Inputs *)

Units == {-10, 0, 10}
AvgPrices == {Undefined, Num(0), Num(100), Num(200)}

\* positions handed directly to aggregateHoldings
BatchPositions ==
    { Position(MSFT, u, 3, "USD", a) : u \in Units, a \in AvgPrices }
    \cup { Position(AAPL, 5, 7, "CAD", Num(50)),
           Position(OPTION, 1, 2, "USD", Num(4)) }

\* long positions only: positive units, average price known and positive or
\* missing
LongPositions ==
    { Position(MSFT, u, 3, "USD", a) : u \in {10, 20},
                                       a \in {Undefined, Num(100), Num(200)} }
    \cup { Position(AAPL, 5, 7, "CAD", Num(50)),
           Position(OPTION, 1, 2, "USD", Num(4)) }

\* every position carries a non-zero average purchase price
PricedPositions ==
    { Position(MSFT, u, 3, "USD", a) : u \in Units, a \in {Num(100), Num(200)} }
    \cup { Position(AAPL, 5, 7, "CAD", Num(50)),
           Position(OPTION, 1, 2, "USD", Num(4)) }

\* positions an account's fetch may return
AccountPositions ==
    { Position(MSFT, 10, 3, "USD", Num(100)),
      Position(MSFT, 10, 3, "CAD", Num(200)),
      Position(AAPL, 5, 7, "CAD", Undefined),
      Position(OPTION, 1, 2, "USD", Num(4)) }

\* parts that generated symbols are concatenated from
SymbolParts ==
    { <<"A", "B">>, <<".">>, <<" ">>, <<"C">>, <<"P">>,
      <<"1", "2", "3", "4", "5", "6">>, <<"7">> }

RECURSIVE SymbolsUpTo(_)
\* the symbols made of at most n parts
SymbolsUpTo(n) ==
    IF n = 0 THEN {<<>>}
    ELSE LET shorter == SymbolsUpTo(n - 1)
         IN  shorter \cup { t \o part : t \in shorter, part \in SymbolParts }

RECURSIVE SeqsUpTo(_, _)
SeqsUpTo(S, n) ==
    IF n = 0 THEN {<<>>}
    ELSE LET shorter == SeqsUpTo(S, n - 1)
         IN  shorter \cup { Append(s, x) : s \in { t \in shorter : Len(t) = n - 1 }, x \in S }

-----------------------------------------------------------------------------
(* snapTradeRequest, getAccounts, validateConnection *)

\* an environment variable: unset, set to the empty string, or set
EnvValues == { [set |-> FALSE, text |-> ""], [set |-> TRUE, text |-> ""],
               [set |-> TRUE, text |-> "value"] }

\* process.env as getConfig reads it
Envs == [clientId : EnvValues, consumerKey : EnvValues]

\* !x for a string or undefined
Missing(v) == ~v.set \/ v.text = ""

\* what the API may answer: status 0 stands for a fetch that rejects; the
\* body is a JSON array, a JSON object without or with a message member,
\* the JSON value null, or not JSON at all
ApiStatuses == {200, 400, 401, 403, 404, 429, 500, 503}
ApiBodies == {"array", "object", "message", "null", "unreadable"}
ApiResponses ==
    {[status |-> 0, body |-> "none"]}
        \cup [status : ApiStatuses, body : ApiBodies]

NoError == [type |-> "none", code |-> "none"]
SnapTradeError(code) == [type |-> "SnapTradeError", code |-> code]
\* an error of the runtime: TypeError, SyntaxError
RuntimeError(type) == [type |-> type, code |-> "none"]

\* how a call ends: with a value or with an error; sent tells whether the
\* HTTP request was issued
Resolve(value, sent) == [threw |-> FALSE, error |-> NoError, value |-> value, sent |-> sent]
Reject(error, sent) == [threw |-> TRUE, error |-> error, value |-> "none", sent |-> sent]

getConfig(env) ==
    IF Missing(env.clientId) \/ Missing(env.consumerKey)
    THEN Reject(SnapTradeError("INVALID_CREDENTIALS"), FALSE)
    ELSE Resolve("config", FALSE)

mapHttpStatusToErrorCode(status) ==
    IF status = 401 \/ status = 403 THEN "INVALID_CREDENTIALS"
    ELSE IF status = 429 THEN "RATE_LIMITED"
    ELSE IF status = 503 THEN "BROKER_UNAVAILABLE"
    ELSE "UNKNOWN_ERROR"

\* response.ok
Ok(resp) == resp.status >= 200 /\ resp.status <= 299

\* the try block of snapTradeRequest: fetch rejects; or the response is not
\* OK, errorData is the parsed body or {} when it cannot be parsed, reading
\* errorData.message throws for null, and otherwise the SnapTradeError of
\* the status is thrown; or the block returns the promise of
\* response.json() without awaiting it
RequestTry(resp) ==
    IF resp.status = 0 THEN Reject(RuntimeError("TypeError"), TRUE)
    ELSE IF ~Ok(resp)
         THEN IF resp.body = "null" THEN Reject(RuntimeError("TypeError"), TRUE)
              ELSE Reject(SnapTradeError(mapHttpStatusToErrorCode(resp.status)), TRUE)
    ELSE Resolve("promise of response.json()", TRUE)

\* the catch block: a SnapTradeError is rethrown, anything else is wrapped
RequestCatch(outcome) ==
    IF outcome.threw /\ outcome.error.type # "SnapTradeError"
    THEN Reject(SnapTradeError("UNKNOWN_ERROR"), outcome.sent)
    ELSE outcome

\* the promise of response.json(), settled after the try statement was left
JsonPromise(resp) ==
    IF resp.body = "unreadable" THEN Reject(RuntimeError("SyntaxError"), TRUE)
    ELSE Resolve(resp.body, TRUE)

snapTradeRequest(env, resp) ==
    IF getConfig(env).threw THEN getConfig(env)
    ELSE IF RequestCatch(RequestTry(resp)).threw THEN RequestCatch(RequestTry(resp))
    ELSE JsonPromise(resp)

\* getAccounts: the awaited request rethrows; response.map exists for an
\* array only
getAccounts(env, resp) ==
    IF snapTradeRequest(env, resp).threw THEN snapTradeRequest(env, resp)
    ELSE IF snapTradeRequest(env, resp).value = "array" THEN Resolve("accounts", TRUE)
    ELSE Reject(RuntimeError("TypeError"), TRUE)

\* validateConnection without its catch
validateConnection_NoCatch(env, resp) ==
    IF getAccounts(env, resp).threw THEN getAccounts(env, resp)
    ELSE Resolve("true", getAccounts(env, resp).sent)

validateConnection(env, resp) ==
    IF getAccounts(env, resp).threw THEN Resolve("false", getAccounts(env, resp).sent)
    ELSE Resolve("true", getAccounts(env, resp).sent)

NoCall == [fn |-> "none", env |-> [clientId |-> [set |-> FALSE, text |-> ""],
                                   consumerKey |-> [set |-> FALSE, text |-> ""]],
           resp |-> [status |-> 0, body |-> "none"],
           pc |-> "idle", outcome |-> Resolve("none", FALSE)]

\* a call that is about to be made in environment env and that the API
\* would answer with resp
Pending_Call(fn, env, resp) ==
    [fn |-> fn, env |-> env, resp |-> resp, pc |-> "called",
     outcome |-> Resolve("none", FALSE)]

\* the call once it has ended with outcome
Ended_Call(fn, env, resp, outcome) ==
    [fn |-> fn, env |-> env, resp |-> resp, pc |-> "done", outcome |-> outcome]

-----------------------------------------------------------------------------
(* analyzeWithGroq (grok.ts) *)

GROQ_MODELS ==
    << "llama-3.3-70b-versatile",
       "meta-llama/llama-4-scout-17b-16e-instruct",
       "moonshotai/kimi-k2-instruct",
       "qwen/qwen3-32b",
       "llama-3.1-8b-instant" >>

\* what the API may answer to one request: status 0 stands for a fetch that
\* rejects (network error); the body of a 200 response is not JSON, has no
\* message content, content without braces, content whose braces do not
\* parse, a recommendations member that is no array, or a valid analysis
Responses ==
    { [status |-> 0, body |-> "none"],
      [status |-> 429, body |-> "error"],
      [status |-> 400, body |-> "error"],
      [status |-> 404, body |-> "error"],
      [status |-> 500, body |-> "error"],
      [status |-> 200, body |-> "notjson"],
      [status |-> 200, body |-> "nocontent"],
      [status |-> 200, body |-> "nobraces"],
      [status |-> 200, body |-> "badjson"],
      [status |-> 200, body |-> "badrecs"],
      [status |-> 200, body |-> "analysis"] }

\* the null tryModel returns, and the AnalysisResponse built from the
\* content the model `by` produced
Null == [null |-> TRUE, by |-> ""]
Analysis(model) == [null |-> FALSE, by |-> model]

Returned(value) == [threw |-> FALSE, value |-> value]
Thrown == [threw |-> TRUE, value |-> Null]

\* the try block of tryModel
TryBlock(model, resp) ==
    IF resp.status = 0 THEN Thrown
    ELSE IF resp.status = 429 THEN Returned(Null)
    ELSE IF ~(resp.status >= 200 /\ resp.status <= 299)
         THEN IF resp.status = 400 \/ resp.status = 404 THEN Returned(Null)
              ELSE Thrown
    ELSE IF resp.body \in {"notjson", "nocontent", "nobraces", "badjson", "badrecs"}
         THEN Thrown
    ELSE Returned(Analysis(model))

\* an exception that leaves tryModel, as the awaiting caller receives it
Escaped == [null |-> TRUE, by |-> "exception"]

\* tryModel without its catch: exceptions of the try block escape
tryModel_NoCatch(model, resp) ==
    IF TryBlock(model, resp).threw THEN Escaped ELSE TryBlock(model, resp).value

\* tryModel: the catch turns every exception of the try block into null
tryModel(model, resp) ==
    IF TryBlock(model, resp).threw THEN Null ELSE TryBlock(model, resp).value

GroqInit == [pc |-> "trying", idx |-> 1, requests |-> <<>>, responses |-> <<>>,
             result |-> Null]

\* the loop goes on to the next model after a success, and the last success
\* is returned at the end
LoopStep_NoReturn(g, result) ==
    LET h == IF result.null THEN g ELSE [g EXCEPT !.result = result]
    IN  IF g.idx < Len(GROQ_MODELS)
        THEN [h EXCEPT !.idx = g.idx + 1, !.pc = "trying"]
        ELSE [h EXCEPT !.pc = IF h.result.null THEN "exhausted" ELSE "success"]

\* the first model that fails ends the call with the final error
LoopStep_GiveUpEarly(g, result) ==
    IF ~result.null THEN [g EXCEPT !.pc = "success", !.result = result]
    ELSE [g EXCEPT !.pc = "exhausted"]

\* if (result) return result; otherwise the for-loop moves to the next model
\* or ends, and the function throws "All models failed or rate limited"
\* an exception of the awaited tryModel call is not caught here and rejects
\* the call of analyzeWithGroq
LoopStep(g, result) ==
    IF result = Escaped THEN [g EXCEPT !.pc = "rejected"]
    ELSE IF ~result.null THEN [g EXCEPT !.pc = "success", !.result = result]
    ELSE IF g.idx < Len(GROQ_MODELS)
         THEN [g EXCEPT !.idx = g.idx + 1, !.pc = "trying"]
         ELSE [g EXCEPT !.pc = "exhausted"]

\* tryModel(model, ...) is called and sends its request
GroqRequest ==
    /\ groq.pc = "trying"
    /\ groq' = [groq EXCEPT !.requests = Append(@, GROQ_MODELS[groq.idx]),
                            !.pc = "waiting"]
    /\ UNCHANGED <<compression, apiCall, pc, accounts, fetch, positions, i, holdingsMap, existing, holdings>>

\* the request is answered, tryModel returns and the loop takes its result
GroqRespond ==
    /\ groq.pc = "waiting"
    /\ \E resp \in Responses :
          groq' = LoopStep([groq EXCEPT !.responses = Append(@, resp)],
                           tryModel(GROQ_MODELS[groq.idx], resp))
    /\ UNCHANGED <<compression, apiCall, pc, accounts, fetch, positions, i, holdingsMap, existing, holdings>>

InitGroq ==
    /\ pc = "getAccounts"
    /\ accounts = <<>>
    /\ fetch = <<>>
    /\ positions = <<>>
    /\ i = 0
    /\ holdingsMap = <<>>
    /\ existing = NoHolding
    /\ holdings = <<>>
    /\ groq = GroqInit
    /\ apiCall = NoCall
    /\ compression = NoCompression

NextGroq == GroqRequest \/ GroqRespond

SpecGroq == InitGroq /\ [][NextGroq]_vars

\* every fetch settles (fulfils or rejects) and the event loop resumes the
\* awaiting call
SpecGroqLive == SpecGroq /\ WF_vars(NextGroq)

-----------------------------------------------------------------------------
(* calls of snapTradeRequest, getAccounts and validateConnection *)

InitRequest ==
    /\ pc = "getAccounts"
    /\ accounts = <<>>
    /\ fetch = <<>>
    /\ positions = <<>>
    /\ i = 0
    /\ holdingsMap = <<>>
    /\ existing = NoHolding
    /\ holdings = <<>>
    /\ groq = GroqInit
    /\ \E fn \in {"snapTradeRequest", "getAccounts", "validateConnection"} :
          \E env \in Envs : \E resp \in ApiResponses :
             apiCall = Pending_Call(fn, env, resp)
    /\ compression = NoCompression

SnapTradeRequestEnds ==
    /\ apiCall.pc = "called"
    /\ apiCall.fn = "snapTradeRequest"
    /\ apiCall' = [apiCall EXCEPT !.pc = "done",
                            !.outcome = snapTradeRequest(apiCall.env, apiCall.resp)]
    /\ UNCHANGED <<compression, pc, accounts, fetch, positions, i, holdingsMap, existing, holdings, groq>>

GetAccountsEnds ==
    /\ apiCall.pc = "called"
    /\ apiCall.fn = "getAccounts"
    /\ apiCall' = [apiCall EXCEPT !.pc = "done",
                            !.outcome = getAccounts(apiCall.env, apiCall.resp)]
    /\ UNCHANGED <<compression, pc, accounts, fetch, positions, i, holdingsMap, existing, holdings, groq>>

ValidateConnectionEnds ==
    /\ apiCall.pc = "called"
    /\ apiCall.fn = "validateConnection"
    /\ apiCall' = [apiCall EXCEPT !.pc = "done",
                            !.outcome = validateConnection(apiCall.env, apiCall.resp)]
    /\ UNCHANGED <<compression, pc, accounts, fetch, positions, i, holdingsMap, existing, holdings, groq>>

NextRequest == SnapTradeRequestEnds \/ GetAccountsEnds \/ ValidateConnectionEnds

SpecRequest == InitRequest /\ [][NextRequest]_vars

-----------------------------------------------------------------------------
(* calls of compressWithBear1 *)

InitCompress ==
    /\ pc = "getAccounts"
    /\ accounts = <<>>
    /\ fetch = <<>>
    /\ positions = <<>>
    /\ i = 0
    /\ holdingsMap = <<>>
    /\ existing = NoHolding
    /\ holdings = <<>>
    /\ groq = GroqInit
    /\ apiCall = NoCall
    /\ \E text \in Texts : \E resp \in CompressionResponses :
          compression = [pc |-> "called", text |-> text, resp |-> resp,
                         result |-> Uncompressed(Str(<<>>))]

CompressEnds ==
    /\ compression.pc = "called"
    /\ compression' = [compression EXCEPT
                          !.pc = "done",
                          !.result = compressWithBear1(compression.text, compression.resp)]
    /\ UNCHANGED <<pc, accounts, fetch, positions, i, holdingsMap, existing, holdings, groq, apiCall>>

NextCompress == CompressEnds

SpecCompress == InitCompress /\ [][NextCompress]_vars

-----------------------------------------------------------------------------
(* aggregateHoldings, one loop iteration per step *)

InitAgg ==
    /\ pc = "agg"
    /\ accounts = <<>>
    /\ fetch = <<>>
    /\ positions \in SeqsUpTo(BatchPositions, MaxBatch)
    /\ i = 0
    /\ holdingsMap = <<>>
    /\ existing = NoHolding
    /\ holdings = <<>>
    /\ groq = GroqInit
    /\ apiCall = NoCall
    /\ compression = NoCompression

\* if (!isEquitySymbol(pos.symbol)) continue;
AggSkip ==
    /\ pc = "agg"
    /\ i < Len(positions)
    /\ ~isEquitySymbol(positions[i + 1].symbol)
    /\ i' = i + 1
    /\ holdingsMap' = LoopBody(holdingsMap, positions[i + 1])
    /\ existing' = NoHolding
    /\ UNCHANGED <<compression, apiCall, groq, pc, accounts, fetch, positions, holdings>>

\* if (existing) { ... }
AggCombine ==
    /\ pc = "agg"
    /\ i < Len(positions)
    /\ isEquitySymbol(positions[i + 1].symbol)
    /\ MapHas(holdingsMap, positions[i + 1].symbol)
    /\ i' = i + 1
    /\ existing' = MapGet(holdingsMap, positions[i + 1].symbol)
    /\ holdingsMap' = LoopBody(holdingsMap, positions[i + 1])
    /\ UNCHANGED <<compression, apiCall, groq, pc, accounts, fetch, positions, holdings>>

\* else { holdingsMap.set(pos.symbol, {...}) }
AggInsert ==
    /\ pc = "agg"
    /\ i < Len(positions)
    /\ isEquitySymbol(positions[i + 1].symbol)
    /\ ~MapHas(holdingsMap, positions[i + 1].symbol)
    /\ i' = i + 1
    /\ existing' = NoHolding
    /\ holdingsMap' = LoopBody(holdingsMap, positions[i + 1])
    /\ UNCHANGED <<compression, apiCall, groq, pc, accounts, fetch, positions, holdings>>

\* return Array.from(holdingsMap.values());
AggReturn ==
    /\ pc = "agg"
    /\ i = Len(positions)
    /\ holdings' = holdingsMap
    /\ pc' = "done"
    /\ UNCHANGED <<compression, apiCall, groq, accounts, fetch, positions, i, holdingsMap, existing>>

NextAgg == AggSkip \/ AggCombine \/ AggInsert \/ AggReturn

SpecAgg == InitAgg /\ [][NextAgg]_vars

InitLong ==
    /\ pc = "agg"
    /\ accounts = <<>>
    /\ fetch = <<>>
    /\ positions \in SeqsUpTo(LongPositions, MaxBatch)
    /\ i = 0
    /\ holdingsMap = <<>>
    /\ existing = NoHolding
    /\ holdings = <<>>
    /\ groq = GroqInit
    /\ apiCall = NoCall
    /\ compression = NoCompression

SpecLong == InitLong /\ [][NextAgg]_vars

InitPriced ==
    /\ pc = "agg"
    /\ accounts = <<>>
    /\ fetch = <<>>
    /\ positions \in SeqsUpTo(PricedPositions, MaxBatch)
    /\ i = 0
    /\ holdingsMap = <<>>
    /\ existing = NoHolding
    /\ holdings = <<>>
    /\ groq = GroqInit
    /\ apiCall = NoCall
    /\ compression = NoCompression

SpecPriced == InitPriced /\ [][NextAgg]_vars

\* a map kept at module level, still filled by the previous call
NewMap_Shared == holdingsMap

\* const holdingsMap = new Map<string, PortfolioHolding>();
NewMap == <<>>

InitCalls ==
    /\ pc = "agg"
    /\ accounts = <<>>
    /\ fetch = <<>>
    /\ positions \in SeqsUpTo(AccountPositions, MaxCallBatch)
    /\ i = 0
    /\ holdingsMap = <<>>
    /\ existing = NoHolding
    /\ holdings = <<>>
    /\ groq = GroqInit
    /\ apiCall = NoCall
    /\ compression = NoCompression

\* aggregateHoldings is called again after it returned; the caller still
\* holds the list the previous call returned
CallAgain ==
    /\ pc = "done"
    /\ positions' \in SeqsUpTo(AccountPositions, MaxCallBatch)
    /\ i' = 0
    /\ holdingsMap' = NewMap
    /\ existing' = NoHolding
    /\ pc' = "agg"
    /\ UNCHANGED <<compression, apiCall, groq, accounts, fetch, holdings>>

NextCalls == NextAgg \/ CallAgain

SpecCalls == InitCalls /\ [][NextCalls]_vars

\* a batch of two positions in one generated symbol
InitSym ==
    /\ pc = "agg"
    /\ accounts = <<>>
    /\ fetch = <<>>
    /\ \E sym \in SymbolsUpTo(MaxParts) :
          positions = << Position(sym, 10, 3, "USD", Num(100)),
                         Position(sym, 10, 3, "USD", Num(200)) >>
    /\ i = 0
    /\ holdingsMap = <<>>
    /\ existing = NoHolding
    /\ holdings = <<>>
    /\ groq = GroqInit
    /\ apiCall = NoCall
    /\ compression = NoCompression

SpecSym == InitSym /\ [][NextAgg]_vars

-----------------------------------------------------------------------------
(* getAllHoldings *)

RECURSIVE Flat(_, _)
\* allPositions.flat(), from entry j on
Flat(ss, j) == IF j > Len(ss) THEN <<>> ELSE ss[j] \o Flat(ss, j + 1)

Pending == [state |-> "pending", value |-> <<>>]

\* the callback without its try/catch: the failure rejects the promise
SettleHoldings_Rethrow(call, response) ==
    IF call = "returned" THEN [state |-> "fulfilled", value |-> response]
    ELSE [state |-> "rejected", value |-> <<>>]

\* the promise of the async callback of accounts.map once getAccountHoldings
\* has returned the positions or thrown
SettleHoldings(call, response) ==
    IF call = "returned" THEN [state |-> "fulfilled", value |-> response]
    ELSE [state |-> "fulfilled", value |-> <<>>]

Init ==
    /\ pc = "getAccounts"
    /\ accounts = <<>>
    /\ fetch = <<>>
    /\ positions = <<>>
    /\ i = 0
    /\ holdingsMap = <<>>
    /\ existing = NoHolding
    /\ holdings = <<>>
    /\ groq = GroqInit
    /\ apiCall = NoCall
    /\ compression = NoCompression

\* const accounts = await getAccounts(userId, userSecret): the call returns
GetAccountsOk ==
    /\ pc = "getAccounts"
    /\ \E env \in Envs : \E resp \in ApiResponses :
          /\ ~getAccounts(env, resp).threw
          /\ apiCall' = Ended_Call("getAccounts", env, resp, getAccounts(env, resp))
    /\ \E n \in 0..MaxAccounts :
          accounts' = [a \in 1..n |-> [id |-> a, holdings |-> <<>>]]
    /\ pc' = "map"
    /\ UNCHANGED <<compression, groq, fetch, positions, i, holdingsMap, existing, holdings>>

\* the failure of getAccounts is caught and the call goes on without accounts
GetAccountsFail_Tolerated ==
    /\ pc = "getAccounts"
    /\ \E env \in Envs : \E resp \in ApiResponses :
          /\ getAccounts(env, resp).threw
          /\ apiCall' = Ended_Call("getAccounts", env, resp, getAccounts(env, resp))
    /\ accounts' = <<>>
    /\ pc' = "map"
    /\ UNCHANGED <<compression, groq, fetch, positions, i, holdingsMap, existing, holdings>>

\* ... or throws, and getAllHoldings, which has no try around the await,
\* rejects with the error in apiCall.outcome
GetAccountsFail ==
    /\ pc = "getAccounts"
    /\ \E env \in Envs : \E resp \in ApiResponses :
          /\ getAccounts(env, resp).threw
          /\ apiCall' = Ended_Call("getAccounts", env, resp, getAccounts(env, resp))
    /\ pc' = "failed"
    /\ UNCHANGED <<compression, groq, accounts, fetch, positions, i, holdingsMap, existing, holdings>>

\* accounts.map(async (account) => ...): every callback runs up to its await,
\* which issues the fetch of that account
IssueFetches ==
    /\ pc = "map"
    /\ fetch' = [a \in 1..Len(accounts) |->
                    [call |-> "pending", response |-> <<>>, promise |-> Pending,
                     at |-> 0]]
    /\ pc' = "await"
    /\ UNCHANGED <<compression, apiCall, groq, accounts, positions, i, holdingsMap, existing, holdings>>

\* the number of fetches that have completed
Completed == Cardinality({a \in 1..Len(fetch) : fetch[a].call # "pending"})

\* account.holdings receives the equity positions only
FetchOk_EquityOnly(a) ==
    /\ pc = "await"
    /\ fetch[a].call = "pending"
    /\ \E ps \in SeqsUpTo(AccountPositions, MaxPerAccount) :
          /\ accounts' = [accounts EXCEPT ![a].holdings = SelectSeq(ps, LAMBDA p : isEquitySymbol(p.symbol))]
          /\ fetch' = [fetch EXCEPT ![a] =
                          [call |-> "returned", response |-> ps,
                           promise |-> SettleHoldings("returned", ps),
                           at |-> Completed + 1]]
    /\ UNCHANGED <<compression, apiCall, groq, pc, positions, i, holdingsMap, existing, holdings>>

\* getAccountHoldings of account a returns: account.holdings = positions;
\* at is the rank of this completion among the fetches of the call
FetchOk(a) ==
    /\ pc = "await"
    /\ fetch[a].call = "pending"
    /\ \E ps \in SeqsUpTo(AccountPositions, MaxPerAccount) :
          /\ accounts' = [accounts EXCEPT ![a].holdings = ps]
          /\ fetch' = [fetch EXCEPT ![a] =
                          [call |-> "returned", response |-> ps,
                           promise |-> SettleHoldings("returned", ps),
                           at |-> Completed + 1]]
    /\ UNCHANGED <<compression, apiCall, groq, pc, positions, i, holdingsMap, existing, holdings>>

\* getAccountHoldings of account a throws: the catch logs and returns []
FetchFail(a) ==
    /\ pc = "await"
    /\ fetch[a].call = "pending"
    /\ fetch' = [fetch EXCEPT ![a] =
                    [call |-> "threw", response |-> <<>>,
                     promise |-> SettleHoldings("threw", <<>>),
                     at |-> Completed + 1]]
    /\ UNCHANGED <<compression, apiCall, groq, pc, accounts, positions, i, holdingsMap, existing, holdings>>

\* the join resolves with the first fulfilled promise (Promise.any for
\* Promise.all)
Join_Any ==
    /\ pc = "await"
    /\ \E a \in 1..Len(fetch) : fetch[a].promise.state = "fulfilled"
    /\ positions' = Flat([a \in 1..Len(fetch) |-> fetch[a].promise.value], 1)
    /\ i' = 0
    /\ holdingsMap' = <<>>
    /\ pc' = "agg"
    /\ UNCHANGED <<compression, apiCall, groq, accounts, fetch, existing, holdings>>

\* the join lists the results in the order in which the fetches completed
Join_CompletionOrder ==
    /\ pc = "await"
    /\ \A a \in 1..Len(fetch) : fetch[a].promise.state = "fulfilled"
    /\ positions' = Flat([k \in 1..Len(fetch) |->
                             fetch[CHOOSE a \in 1..Len(fetch) : fetch[a].at = k].promise.value], 1)
    /\ i' = 0
    /\ holdingsMap' = <<>>
    /\ pc' = "agg"
    /\ UNCHANGED <<compression, apiCall, groq, accounts, fetch, existing, holdings>>

\* await Promise.all(holdingsPromises): rejects with the first rejection,
\* otherwise resolves once every promise is fulfilled; then
\* aggregateHoldings(allPositions.flat()) is entered
Join ==
    /\ pc = "await"
    /\ IF \E a \in 1..Len(fetch) : fetch[a].promise.state = "rejected"
       THEN /\ pc' = "failed"
            /\ UNCHANGED <<positions, i, holdingsMap>>
       ELSE /\ \A a \in 1..Len(fetch) : fetch[a].promise.state = "fulfilled"
            /\ positions' = Flat([a \in 1..Len(fetch) |-> fetch[a].promise.value], 1)
            /\ i' = 0
            /\ holdingsMap' = <<>>
            /\ pc' = "agg"
    /\ UNCHANGED <<compression, apiCall, groq, accounts, fetch, existing, holdings>>

\* some position of the account's holdings passes the filter
Contributed(account) ==
    \E j \in 1..Len(account.holdings) : isEquitySymbol(account.holdings[j].symbol)

\* only the accounts with a position in the holdings are returned
ReturnedAccounts_Contributing == SelectSeq(accounts, Contributed)

\* the accounts member of the object getAllHoldings returns
ReturnedAccounts == accounts

Next ==
    \/ GetAccountsOk
    \/ GetAccountsFail
    \/ IssueFetches
    \/ \E a \in 1..Len(fetch) : FetchOk(a)
    \/ \E a \in 1..Len(fetch) : FetchFail(a)
    \/ Join
    \/ AggSkip
    \/ AggCombine
    \/ AggInsert
    \/ AggReturn

Spec == Init /\ [][Next]_vars

-----------------------------------------------------------------------------
(* Properties of aggregateHoldings (checked under SpecAgg) *)

\* the part of the batch the loop has consumed
Processed == SubSeq(positions, 1, i)

IsEquityPosition(p) == isEquitySymbol(p.symbol)

\* the positions of ps that count toward ticker t
Contributing(ps, t) ==
    { j \in 1..Len(ps) : ps[j].symbol = t /\ isEquitySymbol(ps[j].symbol) }

RECURSIVE SumUnits(_, _, _)
SumUnits(ps, t, j) ==
    IF j > Len(ps) THEN 0
    ELSE (IF j \in Contributing(ps, t) THEN ps[j].units ELSE 0) + SumUnits(ps, t, j + 1)

Permute(ps, f) == [j \in 1..Len(ps) |-> ps[f[j]]]

AllOrders(ps) == { Permute(ps, f) : f \in Permutations(1..Len(ps)) }

SymbolsOf(ps) == { ps[j].symbol : j \in 1..Len(ps) }

\* the last loop iteration combined positions[i] into the holding `existing`
Merged == i > 0 /\ existing # NoHolding

Known(v) == v.k # "undefined"

\* C1: the shares of every holding equal the sum of the units of the equity
\* positions with its ticker, zero and negative units included; this holds of
\* the map after every iteration and of the returned list.
C1_SharesAreSumOfUnits ==
    /\ \A j \in 1..Len(holdingsMap) :
          holdingsMap[j].shares = SumUnits(Processed, holdingsMap[j].ticker, 1)
    /\ pc = "done" =>
          \A j \in 1..Len(holdings) :
              holdings[j].shares = SumUnits(positions, holdings[j].ticker, 1)

C1_Witness ==
    /\ pc = "done"
    /\ \E j \in 1..Len(holdings) :
          LET c == Contributing(positions, holdings[j].ticker)
          IN  /\ Cardinality(c) = 3
              /\ \E a \in c : positions[a].units < 0
              /\ \E a \in c : positions[a].units = 0
              /\ holdings[j].shares # 0

\* C2: the returned list holds each ticker at most once, and holds a ticker
\* exactly when some input position with that symbol passes isEquitySymbol.
C2_TickersUnique ==
    pc = "done" =>
        /\ \A j, m \in 1..Len(holdings) :
              holdings[j].ticker = holdings[m].ticker => j = m
        /\ \A t \in SymbolsOf(positions) :
              MapHas(holdings, t) <=> Contributing(positions, t) # {}
        /\ \A j \in 1..Len(holdings) : holdings[j].ticker \in SymbolsOf(positions)

C2_Witness ==
    /\ pc = "done"
    /\ Len(holdings) = 1
    /\ Len(positions) = 3
    /\ Cardinality(Contributing(positions, holdings[1].ticker)) = 2

\* C3: positions that fail isEquitySymbol never change the aggregation: the
\* map equals the aggregation of the consumed positions with those removed,
\* and no holding carries a ticker that fails the filter.
C3_NonEquityIgnored ==
    /\ holdingsMap = aggregateHoldings(SelectSeq(Processed, IsEquityPosition))
    /\ pc = "done" =>
          /\ holdings = aggregateHoldings(SelectSeq(positions, IsEquityPosition))
          /\ \A j \in 1..Len(holdings) : isEquitySymbol(holdings[j].ticker)

C3_Witness ==
    /\ pc = "done"
    /\ Len(holdings) = 2
    /\ \E j \in 1..Len(positions) : ~isEquitySymbol(positions[j].symbol)

\* C4: a merge with both average prices known (any number) and a non-zero
\* combined share total sets the average price to
\* (shares * average + units * incoming average) / (shares + units).
C4_WeightedAverage ==
    (/\ Merged
     /\ Known(existing.averagePrice)
     /\ Known(positions[i].averagePurchasePrice)
     /\ existing.shares + positions[i].units # 0)
    => MapGet(holdingsMap, positions[i].symbol).averagePrice
         = JSDiv(JSAdd(JSMul(Num(existing.shares), existing.averagePrice),
                       JSMul(Num(positions[i].units),
                             positions[i].averagePurchasePrice)),
                 Num(existing.shares + positions[i].units))

\* C5: a merge with exactly one of the two average prices known yields that
\* value, and the merged average price is unknown only if both are unknown.
C5_SingleKnownAverage ==
    Merged =>
        LET ea == existing.averagePrice
            pa == positions[i].averagePurchasePrice
            ma == MapGet(holdingsMap, positions[i].symbol).averagePrice
        IN  /\ (Known(ea) /\ ~Known(pa)) => ma = ea
            /\ (~Known(ea) /\ Known(pa)) => ma = pa
            /\ ~Known(ma) => (~Known(ea) /\ ~Known(pa))

\* C7: a merge whose combined share total is zero keeps the existing average
\* price: no division by zero takes place, so the price does not turn into
\* NaN or an infinity.
C7_ZeroTotalKeepsAverage ==
    (Merged /\ existing.shares + positions[i].units = 0)
    => MapGet(holdingsMap, positions[i].symbol).averagePrice = existing.averagePrice

\* C8: merging a position with 0 units (and 0 market value) leaves shares,
\* current value and average price of the holding unchanged.
C8_ZeroUnitsMergeIsNoop ==
    (Merged /\ positions[i].units = 0 /\ positions[i].marketValue = 0)
    => LET m == MapGet(holdingsMap, positions[i].symbol)
       IN  /\ m.shares = existing.shares
           /\ m.currentValue = existing.currentValue
           /\ m.averagePrice = existing.averagePrice

\* C9: every permutation of the batch yields the same tickers, and for every
\* ticker the same shares and the same current value.
C9_TotalsOrderIndependent ==
    pc = "done" =>
        \A ps \in AllOrders(positions) :
            LET r == aggregateHoldings(ps)
            IN  \A t \in SymbolsOf(positions) :
                    /\ MapHas(r, t) <=> MapHas(holdings, t)
                    /\ MapGet(r, t).shares = MapGet(holdings, t).shares
                    /\ MapGet(r, t).currentValue = MapGet(holdings, t).currentValue

C9_Witness ==
    /\ pc = "done"
    /\ Len(positions) = 3
    /\ \E j \in 1..Len(holdings) :
          /\ Contributing(positions, holdings[j].ticker) = {1, 2, 3}
          /\ positions[1].units # positions[2].units
          /\ positions[2].units # positions[3].units
          /\ holdings[j].currentValue # 0

\* C10, as claimed: every permutation of the batch yields the same average
\* price for every ticker, whether or not every position carries one.
C10_AverageOrderIndependent ==
    pc = "done" =>
        \A ps \in AllOrders(positions) :
            \A t \in SymbolsOf(positions) :
                MapGet(aggregateHoldings(ps), t).averagePrice
                    = MapGet(holdings, t).averagePrice

\* every position counted toward t has positive units and a positive price
AllPositive(ps, t) ==
    \A j \in Contributing(ps, t) :
        /\ ps[j].units > 0
        /\ ps[j].averagePurchasePrice.k = "num"
        /\ ps[j].averagePurchasePrice.n > 0

\* C10, amended: for a ticker all of whose positions carry positive units and
\* a positive average purchase price, every permutation of the batch yields
\* the same average price.
C10_AverageOrderIndependentPositive ==
    pc = "done" =>
        \A ps \in AllOrders(positions) :
            \A t \in SymbolsOf(positions) :
                AllPositive(positions, t) =>
                    MapGet(aggregateHoldings(ps), t).averagePrice
                        = MapGet(holdings, t).averagePrice

C10_Witness ==
    /\ pc = "done"
    /\ \E j \in 1..Len(holdings) :
          /\ Contributing(positions, holdings[j].ticker) = {1, 2, 3}
          /\ AllPositive(positions, holdings[j].ticker)
          /\ positions[1].averagePurchasePrice = positions[2].averagePurchasePrice
          /\ positions[2].averagePurchasePrice # positions[3].averagePurchasePrice
          /\ holdings[j].averagePrice.d = 3

\* C11: aggregateHoldings returns for every batch, and no numeric field of a
\* returned holding is the result of a division by zero: shares and current
\* value are numbers and the average price is a finite number or absent.
C11_Total ==
    /\ pc = "agg" => ENABLED NextAgg
    /\ pc = "done" =>
          \A j \in 1..Len(holdings) :
              /\ holdings[j].shares \in Int
              /\ holdings[j].currentValue \in Int
              /\ holdings[j].averagePrice.k \in {"num", "undefined"}

RECURSIVE SumValues(_, _, _)
SumValues(ps, t, j) ==
    IF j > Len(ps) THEN 0
    ELSE (IF j \in Contributing(ps, t) THEN ps[j].marketValue ELSE 0)
         + SumValues(ps, t, j + 1)

\* C14: the current value of every holding equals the sum of the market
\* values of the equity positions with its ticker, after every iteration and
\* on return.
C14_ValueIsSumOfMarketValues ==
    /\ \A j \in 1..Len(holdingsMap) :
          holdingsMap[j].currentValue = SumValues(Processed, holdingsMap[j].ticker, 1)
    /\ pc = "done" =>
          \A j \in 1..Len(holdings) :
              holdings[j].currentValue = SumValues(positions, holdings[j].ticker, 1)

C14_Witness ==
    /\ pc = "done"
    /\ \E j \in 1..Len(holdings) :
          LET c == Contributing(positions, holdings[j].ticker)
          IN  /\ Cardinality(c) = 3
              /\ \E a \in c : positions[a].marketValue < 0
              /\ \E a \in c : positions[a].marketValue > 0
              /\ holdings[j].currentValue > 0

\* the first position of ps counted toward ticker t
FirstOf(ps, t) ==
    CHOOSE j \in Contributing(ps, t) : \A m \in Contributing(ps, t) : j <= m

\* C19: a holding set for a new ticker carries the symbol, units, market
\* value, average purchase price and currency of its position; a ticker held
\* by exactly one position is returned with these values, and the returned
\* list is in order of first appearance in the input.
C19_InsertSeedsHolding ==
    /\ (i > 0 /\ existing = NoHolding /\ isEquitySymbol(positions[i].symbol)) =>
          holdingsMap[Len(holdingsMap)] =
              [ticker |-> positions[i].symbol,
               shares |-> positions[i].units,
               currentValue |-> positions[i].marketValue,
               averagePrice |-> positions[i].averagePurchasePrice,
               currency |-> positions[i].currency]
    /\ pc = "done" =>
          /\ \A j \in 1..Len(holdings) :
                LET c == Contributing(positions, holdings[j].ticker)
                IN  Cardinality(c) = 1 =>
                        \A a \in c :
                            /\ holdings[j].shares = positions[a].units
                            /\ holdings[j].currentValue = positions[a].marketValue
                            /\ holdings[j].averagePrice = positions[a].averagePurchasePrice
                            /\ holdings[j].currency = positions[a].currency
          /\ \A j, m \in 1..Len(holdings) :
                j < m => FirstOf(positions, holdings[j].ticker)
                           < FirstOf(positions, holdings[m].ticker)

C19_Witness ==
    /\ pc = "done"
    /\ Len(holdings) = 2
    /\ Len(positions) = 3
    /\ holdings[1].ticker = positions[1].symbol
    /\ holdings[2].ticker = positions[2].symbol
    /\ positions[3].symbol = positions[1].symbol
    /\ holdings[2].shares = positions[2].units

-----------------------------------------------------------------------------
(* Properties of successive calls (checked under SpecCalls) *)

-----------------------------------------------------------------------------
(* Properties of isEquitySymbol (checked under SpecSym) *)

CharsOf(s) == { s[j] : j \in 1..Len(s) }

\* s holds a C or P that follows six digits and is followed by a digit
HasOptionCode(s) ==
    \E j \in 7..(Len(s) - 1) :
        /\ s[j] = "C" \/ s[j] = "P"
        /\ {s[m] : m \in (j - 6)..(j - 1)} \subseteq Digits
        /\ s[j + 1] \in Digits

Rejected(s) ==
    \/ HasOptionCode(s)
    \/ " " \in CharsOf(s)
    \/ Len(s) > 5 /\ "." \notin CharsOf(s)

\* C12: isEquitySymbol is false exactly for a symbol with an option code, a
\* space, or more than 5 characters and no period; positions of a rejected
\* symbol yield no holding and positions of any other symbol yield one.  AAPL
\* and BRK.B are accepted, an option code and GOOGLEX are rejected.
C12_FilterRules ==
    /\ isEquitySymbol(positions[1].symbol) <=> ~Rejected(positions[1].symbol)
    /\ pc = "done" => (Len(holdings) = 1 <=> ~Rejected(positions[1].symbol))
    /\ pc = "done" => (Len(holdings) = 0 <=> Rejected(positions[1].symbol))
    /\ isEquitySymbol(AAPL)
    /\ isEquitySymbol(<<"B", "R", "K", ".", "B">>)
    /\ ~isEquitySymbol(OPTION)
    /\ ~isEquitySymbol(<<"A", "A", "P", "L", " ">> \o SubSeq(OPTION, 5, 19))
    /\ ~isEquitySymbol(<<"G", "O", "O", "G", "L", "E", "X">>)

C12_Witness ==
    /\ pc = "done"
    /\ HasOptionCode(positions[1].symbol)
    /\ "." \in CharsOf(positions[1].symbol)
    /\ " " \notin CharsOf(positions[1].symbol)
    /\ holdings = <<>>

\* C13, as claimed: every symbol with a period is accepted.
C13_PeriodAccepted ==
    "." \in CharsOf(positions[1].symbol) =>
        /\ isEquitySymbol(positions[1].symbol)
        /\ pc = "done" => Len(holdings) = 1

\* C13, amended: every symbol with a period, without a space and without an
\* option code is accepted, whatever its length.
C13_PeriodLiftsLengthRule ==
    (/\ "." \in CharsOf(positions[1].symbol)
     /\ " " \notin CharsOf(positions[1].symbol)
     /\ ~HasOptionCode(positions[1].symbol))
    => /\ isEquitySymbol(positions[1].symbol)
       /\ pc = "done" => Len(holdings) = 1

C13_Witness ==
    /\ pc = "done"
    /\ "." \in CharsOf(positions[1].symbol)
    /\ Len(positions[1].symbol) > 12
    /\ Len(holdings) = 1

-----------------------------------------------------------------------------
(* Properties of getAllHoldings (checked under Spec) *)

\* the positions of the accounts whose fetch succeeded, in account order
RECURSIVE SucceededPositions(_)
SucceededPositions(a) ==
    IF a > Len(fetch) THEN <<>>
    ELSE (IF fetch[a].call = "returned" THEN fetch[a].response ELSE <<>>)
         \o SucceededPositions(a + 1)

\* C6: failed position fetches never fail getAllHoldings (only a failed
\* getAccounts does, before any fetch is issued); the flattened list holds
\* exactly the positions of the accounts whose fetch succeeded, and the
\* returned holdings are their aggregation.
C6_PartialFailureTolerated ==
    /\ pc = "failed" => fetch = <<>>
    /\ pc \in {"agg", "done"} => positions = SucceededPositions(1)
    /\ pc = "done" => holdings = aggregateHoldings(SucceededPositions(1))

C6_Witness ==
    /\ pc = "done"
    /\ Len(fetch) = 2
    /\ fetch[1].call = "returned" /\ fetch[1].response # <<>>
    /\ fetch[2].call = "threw"
    /\ Len(holdings) = 1

\* C15: the currency of a holding is the currency of the first equity
\* position with its ticker in input order; a merge never changes it.
C15_FirstCurrencyKept ==
    /\ Merged => MapGet(holdingsMap, positions[i].symbol).currency = existing.currency
    /\ pc = "done" =>
          \A j \in 1..Len(holdings) :
              holdings[j].currency
                  = positions[FirstOf(positions, holdings[j].ticker)].currency

C15_Witness ==
    /\ pc = "done"
    /\ Len(positions) = 2
    /\ positions[1].symbol = positions[2].symbol
    /\ positions[1].currency # positions[2].currency
    /\ Len(holdings) = 1
    /\ holdings[1].currency = positions[1].currency

\* C16: every per-account fetch is issued before the join is awaited, and
\* aggregateHoldings runs only once every fetch has settled.
C16_JoinedBeforeAggregation ==
    /\ pc \in {"await", "agg", "done"} => Len(fetch) = Len(accounts)
    /\ pc \in {"agg", "done"} =>
          \A a \in 1..Len(fetch) :
              /\ fetch[a].call \in {"returned", "threw"}
              /\ fetch[a].promise.state = "fulfilled"

C16_Witness ==
    /\ pc = "agg"
    /\ i = 0
    /\ Len(fetch) = 2
    /\ fetch[1].call = "returned"
    /\ fetch[2].call = "returned"
    /\ Len(positions) = 2

\* the accounts whose fetched positions are part of the holdings
ContributingAccounts ==
    { a \in 1..Len(fetch) :
        /\ fetch[a].call = "returned"
        /\ \E j \in 1..Len(fetch[a].response) :
              isEquitySymbol(fetch[a].response[j].symbol) }

\* C17, as claimed: the returned accounts are the accounts that contributed
\* positions to the holdings.
C17_AccountsAreContributors ==
    pc = "done" =>
        { ReturnedAccounts[j].id : j \in 1..Len(ReturnedAccounts) } = ContributingAccounts

\* C17, amended: the returned accounts are all accounts getAccounts reported,
\* in their order, whether or not they contributed a position.
C17_AllAccountsReturned ==
    pc = "done" =>
        [j \in 1..Len(ReturnedAccounts) |-> ReturnedAccounts[j].id]
            = [a \in 1..Len(fetch) |-> a]

C17_Witness ==
    /\ pc = "done"
    /\ Len(ReturnedAccounts) = 2
    /\ fetch[1].call = "threw"
    /\ fetch[2].call = "returned"
    /\ fetch[2].response # <<>>
    /\ ContributingAccounts = {}

-----------------------------------------------------------------------------
(* Properties of analyzeWithGroq (checked under SpecGroq) *)

\* the attempts answered so far that produced an analysis
Successes ==
    { j \in 1..Len(groq.responses) :
        ~tryModel(GROQ_MODELS[j], groq.responses[j]).null }

\* C20: the models are requested in the order of GROQ_MODELS, each at most
\* once and one at a time; the call returns the result of the first model
\* that succeeds, and no model after it is requested.
C20_ModelsTriedInOrder ==
    /\ groq.requests = SubSeq(GROQ_MODELS, 1, Len(groq.requests))
    /\ \A j, m \in 1..Len(groq.requests) :
          groq.requests[j] = groq.requests[m] => j = m
    /\ Len(groq.requests) - Len(groq.responses) = (IF groq.pc = "waiting" THEN 1 ELSE 0)
    /\ groq.pc = "success" <=> Successes # {}
    /\ Successes # {} =>
          /\ Successes = {Len(groq.requests)}
          /\ groq.result = tryModel(GROQ_MODELS[Len(groq.requests)],
                                    groq.responses[Len(groq.responses)])
          /\ groq.result.by = groq.requests[Len(groq.requests)]

C20_Witness ==
    /\ groq.pc = "success"
    /\ Len(groq.requests) = 3
    /\ groq.responses[1].status = 429
    /\ groq.responses[2].status = 500
    /\ groq.result = Analysis(GROQ_MODELS[3])

\* "trying candidate i": the call is in the loop at model i, before or
\* after its request was sent
TryingCandidate(g, n) == g.pc \in {"trying", "waiting"} /\ g.idx = n

\* the moves of the fallback state machine
FallbackMove ==
    \/ \E n \in 1..Len(GROQ_MODELS) :
          /\ TryingCandidate(groq, n)
          /\ \/ TryingCandidate(groq', n)
             \/ groq'.pc = "success"
             \/ n < Len(GROQ_MODELS) /\ TryingCandidate(groq', n + 1)
             \/ n = Len(GROQ_MODELS) /\ groq'.pc = "exhausted"
    \/ groq.pc \in {"success", "exhausted"} /\ groq' = groq

\* C21: the fallback sequence moves from trying candidate i to success, to
\* trying candidate i+1 or (from the last candidate) to exhausted, and
\* nowhere else; it ends in success or exhausted; exhausted is reached only
\* when every candidate returned null.
C21_FallbackStateMachine ==
    /\ [][FallbackMove]_vars
    /\ [](groq.pc \in {"success", "exhausted"} \/ \E n \in 1..Len(GROQ_MODELS) : TryingCandidate(groq, n))
    /\ <>[](groq.pc \in {"success", "exhausted"})
    /\ [](groq.pc = "exhausted" =>
            /\ Len(groq.responses) = Len(GROQ_MODELS)
            /\ groq.requests = GROQ_MODELS
            /\ \A j \in 1..Len(GROQ_MODELS) :
                  tryModel(GROQ_MODELS[j], groq.responses[j]).null)

C21_Witness ==
    /\ groq.pc = "exhausted"
    /\ Len(groq.responses) = Len(GROQ_MODELS)
    /\ groq.responses[1].status = 429
    /\ groq.responses[Len(GROQ_MODELS)].status = 400

\* a response from which no analysis can be read: a rejected fetch, a
\* non-OK status, or an OK response whose body does not carry one
FailedResponse(resp) == resp.status # 200 \/ resp.body # "analysis"

\* C22: whatever way an attempt fails (429, 400, 404, another non-OK status,
\* a network error, no content, unparseable JSON), tryModel returns null
\* and does not throw, and analyzeWithGroq goes on to the next model.
C22_EveryFailureSkips ==
    /\ \A model \in {GROQ_MODELS[n] : n \in 1..Len(GROQ_MODELS)} :
          \A resp \in Responses :
             FailedResponse(resp) =>
                /\ ~TryBlock(model, resp).threw => TryBlock(model, resp).value = Null
                /\ tryModel(model, resp) = Null
    /\ {0, 429, 400, 404, 500} \subseteq {resp.status : resp \in Responses}
    /\ groq.pc # "rejected"
    /\ \A j \in 1..Len(groq.responses) :
          FailedResponse(groq.responses[j]) /\ j < Len(GROQ_MODELS) =>
             /\ groq.idx > j
             /\ groq.pc \in {"trying", "waiting", "success", "exhausted"}
             /\ groq.pc = "trying" \/ Len(groq.requests) > j
             /\ groq.pc = "exhausted" => Len(groq.requests) = Len(GROQ_MODELS)

C22_Witness ==
    /\ Len(groq.requests) = 5
    /\ groq.responses[1].status = 500
    /\ groq.responses[2].status = 0
    /\ groq.responses[3].body = "badjson"
    /\ groq.responses[4].body = "nocontent"

-----------------------------------------------------------------------------
(* Properties of getAllHoldings: completion order, accounts, failure
   (checked under Spec) *)

\* the responses of the fetches, listed in the order of the accounts list
ResponsesByAccount == Flat([a \in 1..Len(fetch) |-> fetch[a].response], 1)

\* C23: whatever the order in which the fetches complete, the positions are
\* concatenated in the order of the accounts list, so the consolidated
\* holdings (first-seen currency and average price included) are those of
\* the per-account responses in account order.
C23_CompletionOrderIrrelevant ==
    /\ pc \in {"agg", "done"} => positions = ResponsesByAccount
    /\ pc = "done" => holdings = aggregateHoldings(ResponsesByAccount)

C23_Witness ==
    /\ pc = "done"
    /\ Len(fetch) = 2
    /\ fetch[2].at = 1
    /\ fetch[1].at = 2
    /\ fetch[1].response = <<Position(MSFT, 10, 3, "USD", Num(100))>>
    /\ fetch[2].response = <<Position(MSFT, 10, 3, "CAD", Num(200))>>
    /\ holdings[1].currency = "USD"

\* C24: the returned accounts are the accounts getAccounts reported, in
\* their order; an account whose fetch succeeded holds its whole fetched
\* position list, non-equity positions included, and an account whose
\* fetch failed holds the empty list.
C24_AccountsCarryFetchedPositions ==
    pc = "done" =>
        /\ Len(ReturnedAccounts) = Len(fetch)
        /\ \A a \in 1..Len(fetch) :
              /\ ReturnedAccounts[a].id = a
              /\ fetch[a].call = "returned" =>
                    ReturnedAccounts[a].holdings = fetch[a].response
              /\ fetch[a].call = "threw" =>
                    ReturnedAccounts[a].holdings = <<>>

C24_Witness ==
    /\ pc = "done"
    /\ Len(ReturnedAccounts) = 2
    /\ fetch[1].call = "threw"
    /\ ReturnedAccounts[1].holdings = <<>>
    /\ fetch[2].call = "returned"
    /\ ReturnedAccounts[2].holdings = <<Position(OPTION, 1, 2, "USD", Num(4))>>
    /\ holdings = <<>>

\* C25: when the getAccounts call of getAllHoldings fails, getAllHoldings
\* fails with that error: no per-account fetch is issued, nothing is
\* aggregated or returned, and the call takes no further step.
C25_GetAccountsFailureIsFatal ==
    /\ apiCall.pc = "done" /\ apiCall.outcome.threw =>
          /\ pc = "failed"
          /\ apiCall.outcome = getAccounts(apiCall.env, apiCall.resp)
          /\ accounts = <<>>
          /\ fetch = <<>>
          /\ positions = <<>>
          /\ holdings = <<>>
          /\ ~ENABLED Next
    /\ pc = "failed" => apiCall.pc = "done" /\ apiCall.outcome.threw

C25_Witness ==
    /\ pc = "failed"
    /\ apiCall.fn = "getAccounts"
    /\ apiCall.resp.status = 429
    /\ apiCall.outcome.error = SnapTradeError("RATE_LIMITED")
    /\ fetch = <<>>

-----------------------------------------------------------------------------
(* Properties of snapTradeRequest and validateConnection
   (checked under SpecRequest) *)

CredentialsMissing(env) ==
    \/ env.clientId \in {[set |-> FALSE, text |-> ""], [set |-> TRUE, text |-> ""]}
    \/ env.consumerKey \in {[set |-> FALSE, text |-> ""], [set |-> TRUE, text |-> ""]}

\* the error code the claim names for a non-OK status
ClaimedCode(status) ==
    CASE status \in {401, 403} -> "INVALID_CREDENTIALS"
      [] status = 429 -> "RATE_LIMITED"
      [] status = 503 -> "BROKER_UNAVAILABLE"
      [] OTHER -> "UNKNOWN_ERROR"

\* C26: every failure of snapTradeRequest is a SnapTradeError: missing
\* credentials give INVALID_CREDENTIALS before a request is sent, a non-OK
\* response gives the code of its status, a network failure or an
\* unreadable body of an OK response gives UNKNOWN_ERROR.
C26_FailuresAreSnapTradeErrors ==
    apiCall.fn = "snapTradeRequest" /\ apiCall.pc = "done" =>
        /\ apiCall.outcome.threw => apiCall.outcome.error.type = "SnapTradeError"
        /\ CredentialsMissing(apiCall.env) =>
              /\ apiCall.outcome = Reject(SnapTradeError("INVALID_CREDENTIALS"), FALSE)
        /\ ~CredentialsMissing(apiCall.env) =>
              /\ apiCall.outcome.sent
              /\ apiCall.resp.status = 0 =>
                    apiCall.outcome = Reject(SnapTradeError("UNKNOWN_ERROR"), TRUE)
              /\ apiCall.resp.status \in ApiStatuses \ {200} =>
                    apiCall.outcome =
                        Reject(SnapTradeError(ClaimedCode(apiCall.resp.status)), TRUE)
              /\ apiCall.resp.status = 200 /\ apiCall.resp.body = "unreadable" =>
                    apiCall.outcome = Reject(SnapTradeError("UNKNOWN_ERROR"), TRUE)

\* getAccounts succeeds: credentials are set and the API answers OK with
\* a JSON array
GetAccountsSucceeds(env, resp) ==
    /\ ~CredentialsMissing(env)
    /\ resp.status = 200
    /\ resp.body = "array"

\* C27: validateConnection never throws; it returns true exactly when the
\* getAccounts call succeeds and false for every way it fails.
C27_ValidateConnectionNeverFails ==
    apiCall.fn = "validateConnection" /\ apiCall.pc = "done" =>
        /\ ~apiCall.outcome.threw
        /\ apiCall.outcome.value \in {"true", "false"}
        /\ apiCall.outcome.value = "true" <=> ~getAccounts(apiCall.env, apiCall.resp).threw
        /\ apiCall.outcome.value = "true" <=> GetAccountsSucceeds(apiCall.env, apiCall.resp)

C27_Witness ==
    /\ apiCall.fn = "validateConnection"
    /\ apiCall.pc = "done"
    /\ ~CredentialsMissing(apiCall.env)
    /\ apiCall.resp = [status |-> 200, body |-> "unreadable"]
    /\ getAccounts(apiCall.env, apiCall.resp).error.type = "SyntaxError"
    /\ apiCall.outcome.value = "false"

-----------------------------------------------------------------------------
(* Properties of compressWithBear1 (checked under SpecCompress) *)

\* C28: compressWithBear1 always returns a result; on a non-OK response or
\* a thrown error the result carries the original text, compressedTokens
\* equal to originalTokens and savings 0; and savings is always a number
\* that is at least 0.
C28_CompressionNeverFails ==
    compression.pc = "done" =>
        /\ \/ compression.resp.status # 200
           \/ compression.resp.body.kind \in {"unreadable", "null"}
           => /\ compression.result.compressed = compression.text
              /\ compression.result.compressedTokens = compression.result.originalTokens
              /\ compression.result.savings = Num(0)
        /\ compression.result.savings.k = "num"
        /\ compression.result.savings.n >= 0

====
